---- MODULE Spec2Model ----
(***************************************************************************)
(* Model of ias/simple_cdk.py: the option processors, _make_stack_name and *)
(* init_ias_model.                                                         *)
(*                                                                         *)
(* A Python dict is a TLA+ function whose DOMAIN is the set of keys that   *)
(* are present; a Python list is a sequence; a str is a string.            *)
(* The objects are modelled by value.  The only in-place mutation the code *)
(* performs on an object it did not create is dict.update on the caller's  *)
(* context in load_toml_config_files; it is modelled by the "arg" field of *)
(* a processor's outcome, the caller's record as it is after the call.     *)
(***************************************************************************)
EXTENDS Integers, Sequences, FiniteSets, TLC

VARIABLES
    options,    \* the caller's options record (the object passed in)
    before,     \* value of the caller's record when the call started
    environ,    \* os.environ: CDK_DEFAULT_ACCOUNT / CDK_DEFAULT_REGION
    files,      \* the working directory: path -> [valid, data]
    op,         \* the function that was called ("" before the call)
    result,     \* the value returned by the call
    raised,     \* the exception that left the call ("" if none)
    args,       \* <<prefix, id, env_name>> for _make_stack_name
    procs,      \* option_processors handed to init_ias_model
    processed,  \* the options logged at line 319, after the processors
    applied,    \* the processors that were called, in call order
    model,      \* the IasModel returned by init_ias_model
    name,       \* the str returned by _make_stack_name
    key,        \* the key handed to get_context_data
    value       \* the value returned by get_context_data

vars == <<options, before, environ, files, op, result, raised, args, procs,
          processed, applied, model, name, key, value>>

----------------------------------------------------------------------------
(* Bounds *)

MaxStacks == 2
MaxProcs == 2
MaxPath == 3

----------------------------------------------------------------------------
(* Python values *)

None == "<None>"

EmptyDict == <<>>

Get(d, k) == IF k \in DOMAIN d THEN d[k] ELSE None

GetOr(d, k, default) == IF k \in DOMAIN d THEN d[k] ELSE default

Put(d, k, v) == [x \in DOMAIN d \cup {k} |-> IF x = k THEN v ELSE d[x]]

Update(d, e) ==
    [x \in DOMAIN d \cup DOMAIN e |-> IF x \in DOMAIN e THEN e[x] ELSE d[x]]

\* f"{x}"
Str(x) == IF x = None THEN "None" ELSE x

getenv(k) == Get(environ, k)

\* A value whose type the code asks for (isinstance, is None, .get) carries
\* its type: a str, a dict of such values, a list of str, or None.
PyStr(s) == [kind |-> "str", str |-> s, items |-> <<>>]

PyDict(d) == [kind |-> "dict", str |-> "", items |-> d]

PyList(l) == [kind |-> "list", str |-> "", items |-> l]

PyNone == [kind |-> "None", str |-> "", items |-> <<>>]

\* outcome of a call: the value returned, the caller's record after the
\* call, and the exception raised ("" when the call returned)
Returned(ret, arg) == [ret |-> ret, arg |-> arg, err |-> ""]

Raised(err, arg) == [ret |-> EmptyDict, arg |-> arg, err |-> err]

----------------------------------------------------------------------------
(* Helper functions *)

\* the "default" branch taken whatever the prefix is
_make_stack_name_any_prefix(prefix, id, env_name) ==
    IF id = "default"
    THEN Str(prefix)
    ELSE IF prefix = ""
    THEN Str(id)
    ELSE IF env_name = ""
    THEN Str(prefix) \o "-" \o Str(id)
    ELSE Str(prefix) \o "-" \o Str(id) \o "-" \o Str(env_name)

_make_stack_name(prefix, id, env_name) ==
    IF id = "default" /\ prefix # ""
    THEN Str(prefix)
    ELSE IF prefix = ""
    THEN Str(id)
    ELSE IF env_name = ""
    THEN Str(prefix) \o "-" \o Str(id)
    ELSE Str(prefix) \o "-" \o Str(id) \o "-" \o Str(env_name)

----------------------------------------------------------------------------
(* Option processors *)

\* the process variables taken whether or not a value is given
set_env_always_from_env_vars(o) ==
    LET env0 == GetOr(o, "environment", EmptyDict)
        env1 == Put(env0, "account", getenv("CDK_DEFAULT_ACCOUNT"))
        env2 == Put(env1, "region", getenv("CDK_DEFAULT_REGION"))
        env3 == IF Get(env2, "name") = None
                THEN Put(env2, "name", "")
                ELSE env2
    IN  Returned(Put(o, "environment", env3), o)

set_env_account_region_from_env_vars(o) ==
    LET env0 == GetOr(o, "environment", EmptyDict)
        env1 == IF Get(env0, "account") = None
                THEN Put(env0, "account", getenv("CDK_DEFAULT_ACCOUNT"))
                ELSE env0
        env2 == IF Get(env1, "region") = None
                THEN Put(env1, "region", getenv("CDK_DEFAULT_REGION"))
                ELSE env1
        env3 == IF Get(env2, "name") = None
                THEN Put(env2, "name", "")
                ELSE env2
    IN  Returned(Put(o, "environment", env3), o)

\* the default stack named after its id
set_default_stack_named_by_id(o) ==
    LET stacks == GetOr(o, "stacks", <<>>)
        stack_info == [id |-> "default",
                       name |-> "default",
                       depends_on |-> <<>>]
    IN  IF Len(stacks) = 0
        THEN Returned(Put(o, "stacks", Append(stacks, stack_info)), o)
        ELSE Returned(o, o)

\* the default stack added while there is at most one stack
set_default_stack_if_few_stacks(o) ==
    LET stacks == GetOr(o, "stacks", <<>>)
        stack_info == [id |-> "default",
                       name |-> GetOr(o, "deployment_name", ""),
                       depends_on |-> <<>>]
    IN  IF Len(stacks) <= 1
        THEN Returned(Put(o, "stacks", Append(stacks, stack_info)), o)
        ELSE Returned(o, o)

set_default_stack_if_no_stacks(o) ==
    LET stacks == GetOr(o, "stacks", <<>>)
        stack_info == [id |-> "default",
                       name |-> GetOr(o, "deployment_name", ""),
                       depends_on |-> <<>>]
    IN  IF Len(stacks) = 0
        THEN Returned(Put(o, "stacks", Append(stacks, stack_info)), o)
        ELSE Returned(o, o)

\* the name derived without looking for an explicit one
RenamedStack(stack_info, deployment_name, env_name) ==
    LET stack_id == GetOr(stack_info, "id", "default")
    IN  Put(stack_info, "name",
            _make_stack_name(deployment_name, stack_id, env_name))

NamedStack(stack_info, deployment_name, env_name) ==
    LET stack_id == GetOr(stack_info, "id", "default")
    IN  IF Get(stack_info, "name") = None
        THEN Put(stack_info, "name",
                 _make_stack_name(deployment_name, stack_id, env_name))
        ELSE stack_info

set_stack_names(o) ==
    LET deployment_name == GetOr(o, "deployment_name", "")
        env_name == GetOr(GetOr(o, "environment", EmptyDict), "name", "")
        stacks == GetOr(o, "stacks", <<>>)
        named == [i \in 1..Len(stacks) |->
                     NamedStack(stacks[i], deployment_name, env_name)]
    IN  Returned(Put(o, "stacks", named), o)

\* the most specific file read first
config_paths_specific_first(deployment_name, env_name) ==
    (IF deployment_name # "" /\ env_name # ""
     THEN <<Str(deployment_name) \o "-" \o Str(env_name) \o ".toml">>
     ELSE <<>>)
    \o (IF deployment_name # ""
        THEN <<Str(deployment_name) \o ".toml">> ELSE <<>>)
    \o (IF env_name # "" THEN <<Str(env_name) \o ".toml">> ELSE <<>>)

config_paths(deployment_name, env_name) ==
    (IF env_name # "" THEN <<Str(env_name) \o ".toml">> ELSE <<>>)
    \o (IF deployment_name # ""
        THEN <<Str(deployment_name) \o ".toml">> ELSE <<>>)
    \o (IF deployment_name # "" /\ env_name # ""
        THEN <<Str(deployment_name) \o "-" \o Str(env_name) \o ".toml">>
        ELSE <<>>)

\* the loop of lines 220-225 over paths[i..]: config_result after it, and
\* the exception that ended it
RECURSIVE load_files(_, _, _)
load_files(paths, i, config_result) ==
    IF i > Len(paths)
    THEN [config |-> config_result, err |-> ""]
    ELSE IF paths[i] \notin DOMAIN files
    THEN load_files(paths, i + 1, config_result)
    ELSE IF ~files[paths[i]].valid
    THEN [config |-> config_result, err |-> "TOMLDecodeError"]
    ELSE load_files(paths, i + 1, Update(config_result, files[paths[i]].data))

load_toml_config_files(o) ==
    LET deployment_name == GetOr(o, "deployment_name", "")
        env_name == GetOr(GetOr(o, "environment", EmptyDict), "name", "")
        paths == config_paths(deployment_name, env_name)
        loaded == load_files(paths, 1, GetOr(o, "context", EmptyDict))
        \* config_result is the caller's own context dict when there is one
        arg == IF "context" \in DOMAIN o
               THEN Put(o, "context", loaded.config)
               ELSE o
    IN  IF loaded.err # ""
        THEN Raised(loaded.err, arg)
        ELSE Returned(Put(arg, "context", loaded.config), arg)

\* the outcome of two calls in a row, the second on what the first returned;
\* the first received the caller's record
Then(first, second) ==
    IF first.err # ""
    THEN first
    ELSE [ret |-> second.ret, arg |-> first.arg, err |-> second.err]

\* the stack names left underived
simple_defaults_without_names(o) ==
    LET env == set_env_account_region_from_env_vars(o)
    IN  Then(env, set_default_stack_if_no_stacks(env.ret))

simple_defaults(o) ==
    LET env == set_env_account_region_from_env_vars(o)
        stack == Then(env, set_default_stack_if_no_stacks(env.ret))
    IN  Then(stack, set_stack_names(stack.ret))

simple_config_defaults(o) ==
    LET defaults == simple_defaults(o)
    IN  Then(defaults, load_toml_config_files(defaults.ret))

\* the processor defined by test_init_model_hardcoded_env_model_postprocessing
hardcode_env(o) ==
    IF "environment" \notin DOMAIN o
    THEN Raised("KeyError: 'environment'", o)
    ELSE Returned(
           Put(o, "environment",
               Put(Put(Put(o["environment"], "name", "hardcoded_env"),
                       "account", "111111111111"),
                   "region", "eu-north-0")),
           o)

OptionProcessors ==
    {"set_env_account_region_from_env_vars", "set_default_stack_if_no_stacks",
     "set_stack_names", "load_toml_config_files", "simple_defaults",
     "simple_config_defaults"}

Call(processor, o) ==
    CASE processor = "set_env_account_region_from_env_vars" ->
             set_env_account_region_from_env_vars(o)
      [] processor = "set_default_stack_if_no_stacks" ->
             set_default_stack_if_no_stacks(o)
      [] processor = "set_stack_names" -> set_stack_names(o)
      [] processor = "load_toml_config_files" -> load_toml_config_files(o)
      [] processor = "simple_defaults" -> simple_defaults(o)
      [] processor = "simple_config_defaults" -> simple_config_defaults(o)
      [] processor = "hardcode_env" -> hardcode_env(o)

----------------------------------------------------------------------------
(* Model management functions *)

_create_environment(opts) ==
    <<opts["name"],
      [account |-> Get(opts, "account"), region |-> Get(opts, "region")]>>

_apply_stack_tags(stack, tags) ==
    [stack EXCEPT !.tags = Update(@, tags)]

\* cdk.Stack(scope, id, stack_name=..., env=...)
Stack(id, stack_name, env) ==
    [id |-> id, stack_name |-> stack_name, env |-> env, tags |-> EmptyDict]

\* the processors taken from the end of the list
RECURSIVE run_processors_reversed(_, _, _, _)
run_processors_reversed(option_processors, i, o, called) ==
    IF i > Len(option_processors)
    THEN [options |-> o, applied |-> called, err |-> "", arg |-> o]
    ELSE LET processor == option_processors[Len(option_processors) + 1 - i]
             out == Call(processor, o)
             now == Append(called, processor)
         IN  IF out.err # ""
             THEN [options |-> EmptyDict, applied |-> now, err |-> out.err,
                   arg |-> out.arg]
             ELSE [run_processors_reversed(option_processors, i + 1, out.ret,
                                           now)
                     EXCEPT !.arg = out.arg]

RECURSIVE run_processors(_, _, _, _)

\* line 318 once processor i has come back with out: the exception leaves
\* the loop, or the loop goes on with the record returned
processor_done(option_processors, i, out, called) ==
    IF out.err # ""
    THEN [options |-> EmptyDict, applied |-> called, err |-> out.err,
          arg |-> out.arg]
    ELSE [run_processors(option_processors, i + 1, out.ret, called)
            EXCEPT !.arg = out.arg]

\* the loop of lines 317-318 over option_processors[i..]; arg is the
\* caller's record, which the first processor received
run_processors(option_processors, i, o, called) ==
    IF i > Len(option_processors)
    THEN [options |-> o, applied |-> called, err |-> "", arg |-> o]
    ELSE processor_done(option_processors, i, Call(option_processors[i], o),
                        Append(called, option_processors[i]))

\* the stacks recorded under their names
RECURSIVE create_stacks_by_name(_, _, _, _, _)
create_stacks_by_name(stack_infos, i, env, tags, acc) ==
    IF i > Len(stack_infos)
    THEN acc
    ELSE LET stack_info == stack_infos[i]
             stack_id == stack_info["id"]
             stack_name == GetOr(stack_info, "name", stack_id)
             stack == _apply_stack_tags(Stack(stack_id, stack_name, env), tags)
         IN  create_stacks_by_name(
                 stack_infos, i + 1, env, tags,
                 [stacks |-> Put(acc.stacks, stack_name, stack),
                  children |-> Append(acc.children, stack)])

\* a stack whose id is already in the mapping left out of it
RECURSIVE create_stacks_keep_first(_, _, _, _, _)
create_stacks_keep_first(stack_infos, i, env, tags, acc) ==
    IF i > Len(stack_infos)
    THEN acc
    ELSE LET stack_info == stack_infos[i]
             stack_id == stack_info["id"]
             stack_name == GetOr(stack_info, "name", stack_id)
             stack == _apply_stack_tags(Stack(stack_id, stack_name, env), tags)
         IN  create_stacks_keep_first(
                 stack_infos, i + 1, env, tags,
                 [stacks |-> IF stack_id \in DOMAIN acc.stacks
                             THEN acc.stacks
                             ELSE Put(acc.stacks, stack_id, stack),
                  children |-> Append(acc.children, stack)])

\* the loop of lines 326-331 over stack_infos[i..]: the stacks mapping and
\* the stacks constructed under the app, in construction order
RECURSIVE create_stacks(_, _, _, _, _)
create_stacks(stack_infos, i, env, tags, acc) ==
    IF i > Len(stack_infos)
    THEN acc
    ELSE LET stack_info == stack_infos[i]
             stack_id == stack_info["id"]
             stack_name == GetOr(stack_info, "name", stack_id)
             stack == _apply_stack_tags(Stack(stack_id, stack_name, env), tags)
         IN  create_stacks(stack_infos, i + 1, env, tags,
                           [stacks |-> Put(acc.stacks, stack_id, stack),
                            children |-> Append(acc.children, stack)])

Failed(err, run) ==
    [model |-> EmptyDict, processed |-> run.options, applied |-> run.applied,
     err |-> err, arg |-> run.arg]

\* lines 319-338, run being the outcome of the processor loop
build_model(run) ==
    LET opts == run.options
        env == GetOr(opts, "environment", [name |-> ""])
        current_env == _create_environment(env)
        built == create_stacks(GetOr(opts, "stacks", <<>>), 1, current_env[2],
                               GetOr(opts, "tags", EmptyDict),
                               [stacks |-> EmptyDict, children |-> <<>>])
    IN  IF run.err # ""
        THEN Failed(run.err, run)
        ELSE IF "deployment_name" \notin DOMAIN opts
        THEN Failed("KeyError: 'deployment_name'", run)
        ELSE IF "name" \notin DOMAIN env
        THEN Failed("KeyError: 'name'", run)
        ELSE [model |->
                 [deployment_name |-> opts["deployment_name"],
                  app |-> [context |-> Get(opts, "context"),
                           children |-> built.children],
                  stacks |-> built.stacks,
                  current_environment |-> current_env],
              processed |-> opts,
              applied |-> run.applied,
              err |-> "",
              arg |-> run.arg]

\* the deployment name looked up before the processors run
init_ias_model_name_first(o, option_processors) ==
    IF "deployment_name" \notin DOMAIN o
    THEN [model |-> EmptyDict, processed |-> EmptyDict, applied |-> <<>>,
          err |-> "KeyError: 'deployment_name'", arg |-> o]
    ELSE build_model(run_processors(option_processors, 1, o, <<>>))

init_ias_model(o, option_processors) ==
    build_model(run_processors(option_processors, 1, o, <<>>))

----------------------------------------------------------------------------
(* Support functions *)

\* scope.node.try_get_context(key), context being the context the app of
\* the scope was created with
try_get_context(context, k) ==
    IF k \in DOMAIN context THEN context[k] ELSE PyNone

\* the loop of lines 357-360 over keys[i..]; a str has no get
RECURSIVE follow_keys(_, _, _)
follow_keys(context, keys, i) ==
    IF i > Len(keys)
    THEN [value |-> context, err |-> ""]
    ELSE IF context.kind = "None"
    THEN [value |-> context, err |-> ""]
    ELSE IF context.kind # "dict"
    THEN [value |-> PyNone, err |-> "AttributeError"]
    ELSE follow_keys(try_get_context(context.items, keys[i]), keys, i + 1)

get_context_data(context, k) ==
    IF k.kind = "str"
    THEN [value |-> try_get_context(context, k.str), err |-> ""]
    ELSE IF Len(k.items) = 0
    THEN [value |-> PyNone, err |-> "IndexError"]
    ELSE follow_keys(try_get_context(context, k.items[1]), k.items, 2)

----------------------------------------------------------------------------
(* Inputs *)

\* the dicts that have key k with a value of V, and the dict without k
Optional(k, V) == {EmptyDict} \cup {k :> v : v \in V}

SeqsUpTo(S, n) == UNION {[1..m -> S] : m \in 0..n}

StackIds == {"default", "test2", "test3"}

StackInfoOptions ==
    {i @@ n : i \in {"id" :> s : s \in StackIds},
              n \in Optional("name", {"test1name"})}

EnvironmentOptions ==
    {n @@ a @@ r : n \in Optional("name", {"", "testenv"}),
                   a \in Optional("account", {"234567890123"}),
                   r \in Optional("region", {"eu-north-1"})}

Environs ==
    {a @@ r : a \in Optional("CDK_DEFAULT_ACCOUNT", {"123456789012"}),
              r \in Optional("CDK_DEFAULT_REGION", {"eu-north-0"})}

\* a TOML file: one that does not parse, or the table it parses to
TomlFiles(marker) ==
    {[valid |-> FALSE, data |-> EmptyDict],
     [valid |-> TRUE, data |-> "k1" :> marker],
     [valid |-> TRUE, data |-> ("k1" :> marker) @@ ("k2" :> marker)]}

Directories ==
    {a @@ b @@ c :
        a \in Optional("testenv.toml", TomlFiles("env")),
        b \in Optional("test.toml", TomlFiles("dep")),
        c \in Optional("test-testenv.toml", TomlFiles("depenv"))}

Contexts == {EmptyDict, "k1" :> "ctx", ("k1" :> "ctx") @@ ("k3" :> "ctx")}

\* records whose stacks and environment vary
StackOptions ==
    {d @@ s @@ e :
        d \in Optional("deployment_name", {"", "test"}),
        s \in Optional("stacks", SeqsUpTo(StackInfoOptions, MaxStacks)),
        e \in Optional("environment", EnvironmentOptions)}

\* records whose context and configuration file names vary
ConfigOptions ==
    {d @@ s @@ e @@ c :
        d \in Optional("deployment_name", {"", "test"}),
        s \in Optional("stacks", {<<[id |-> "test2"]>>}),
        e \in Optional("environment", Optional("name", {"", "testenv"})),
        c \in Optional("context", Contexts)}

NotCalled ==
    /\ before = options
    /\ op = ""
    /\ result = EmptyDict
    /\ raised = ""
    /\ processed = EmptyDict
    /\ applied = <<>>
    /\ model = EmptyDict
    /\ name = ""
    /\ key = PyNone
    /\ value = PyNone

----------------------------------------------------------------------------
(* Calls of the option processors *)

Init ==
    /\ \/ /\ options \in StackOptions
          /\ environ \in Environs
          /\ files = EmptyDict
       \/ /\ options \in ConfigOptions
          /\ environ = EmptyDict
          /\ files \in Directories
    /\ args = <<>>
    /\ procs = <<>>
    /\ NotCalled

\* the call of a processor has come back with out
Returns(processor, out) ==
    /\ options' = out.arg
    /\ result' = out.ret
    /\ raised' = out.err
    /\ before' = options
    /\ op' = processor
    /\ UNCHANGED <<environ, files, args, procs, processed, applied, model,
                   name, key, value>>

call_set_env_account_region_from_env_vars ==
    /\ op = ""
    /\ Returns("set_env_account_region_from_env_vars",
               set_env_account_region_from_env_vars(options))

call_set_default_stack_if_no_stacks ==
    /\ op = ""
    /\ Returns("set_default_stack_if_no_stacks",
               set_default_stack_if_no_stacks(options))

call_set_stack_names ==
    /\ op = ""
    /\ Returns("set_stack_names", set_stack_names(options))

call_load_toml_config_files ==
    /\ op = ""
    /\ Returns("load_toml_config_files", load_toml_config_files(options))

call_simple_defaults ==
    /\ op = ""
    /\ Returns("simple_defaults", simple_defaults(options))

call_simple_config_defaults ==
    /\ op = ""
    /\ Returns("simple_config_defaults", simple_config_defaults(options))

Next ==
    \/ call_set_env_account_region_from_env_vars
    \/ call_set_default_stack_if_no_stacks
    \/ call_set_stack_names
    \/ call_load_toml_config_files
    \/ call_simple_defaults
    \/ call_simple_config_defaults

Spec == Init /\ [][Next]_vars

----------------------------------------------------------------------------
(* Calls of _make_stack_name *)

NameParts == {"", "default", "test", "test2", "test3", "stackid"}

InitName ==
    /\ args \in NameParts \X NameParts \X NameParts
    /\ options = EmptyDict
    /\ environ = EmptyDict
    /\ files = EmptyDict
    /\ procs = <<>>
    /\ NotCalled

call_make_stack_name ==
    /\ op = ""
    /\ op' = "_make_stack_name"
    /\ name' = _make_stack_name(args[1], args[2], args[3])
    /\ UNCHANGED <<options, before, environ, files, result, raised, args,
                   procs, processed, applied, model, key, value>>

NextName == call_make_stack_name

SpecName == InitName /\ [][NextName]_vars

----------------------------------------------------------------------------
(* Properties of the option processors *)

\* C1: every option processor leaves the caller's record, with its nested
\* environment, stacks and context, as it was before the call, whether the
\* call returns or raises.
CopyOnWrite == op \in OptionProcessors => options = before

\* C2: _make_stack_name returns prefix if id is "default" and prefix is not
\* empty; otherwise id if prefix is empty; otherwise "prefix-id" if env_name
\* is empty; otherwise "prefix-id-env_name".
MakeStackNameRule ==
    op = "_make_stack_name" =>
        LET prefix == args[1]
            id == args[2]
            env_name == args[3]
        IN  /\ (id = "default" /\ prefix # "") => name = prefix
            /\ (~(id = "default" /\ prefix # "") /\ prefix = "")
                  => name = id
            /\ (id # "default" /\ prefix # "" /\ env_name = "")
                  => name = prefix \o "-" \o id
            /\ (id # "default" /\ prefix # "" /\ env_name # "")
                  => name = prefix \o "-" \o id \o "-" \o env_name

MakeStackNameCase ==
    /\ op = "_make_stack_name"
    /\ args = <<"test", "test2", "test3">>
    /\ name = "test-test2-test3"

\* C3: set_stack_names, and simple_defaults, return every descriptor that
\* has an explicit name as it was; a descriptor without a name is returned
\* with a name added and nothing else changed; the descriptors keep their
\* number, order and ids.
ExplicitNamesKept ==
    (op \in {"set_stack_names", "simple_defaults"} /\ raised = "") =>
        LET ins == GetOr(before, "stacks", <<>>)
            outs == result["stacks"]
        IN  /\ (op = "set_stack_names" \/ Len(ins) > 0) => Len(outs) = Len(ins)
            /\ \A i \in 1..Len(ins) :
                  /\ outs[i]["id"] = ins[i]["id"]
                  /\ "name" \in DOMAIN ins[i] => outs[i] = ins[i]
                  /\ "name" \notin DOMAIN ins[i] =>
                        /\ DOMAIN outs[i] = DOMAIN ins[i] \cup {"name"}
                        /\ \A k \in DOMAIN ins[i] : outs[i][k] = ins[i][k]
                        /\ outs[i]["name"] =
                              _make_stack_name(
                                  GetOr(before, "deployment_name", ""),
                                  ins[i]["id"],
                                  GetOr(GetOr(before, "environment", EmptyDict),
                                        "name", ""))

ExplicitNameCase ==
    /\ op = "set_stack_names"
    /\ "stacks" \in DOMAIN before
    /\ before["stacks"] = <<[id |-> "test2", name |-> "test1name"],
                            [id |-> "test3"]>>
    /\ "deployment_name" \in DOMAIN before
    /\ before["deployment_name"] = "test"
    /\ result["stacks"][1]["name"] = "test1name"
    /\ result["stacks"][2]["name"] # "test1name"

\* C4: set_default_stack_if_no_stacks returns, for a record whose stacks
\* list is absent or empty, a stacks list of exactly one descriptor with id
\* "default", the deployment name as name and no dependencies; for a record
\* with a non-empty stacks list it returns that list.
DefaultStackInjected ==
    op = "set_default_stack_if_no_stacks" =>
        /\ raised = ""
        /\ IF "stacks" \notin DOMAIN before \/ before["stacks"] = <<>>
           THEN /\ Len(result["stacks"]) = 1
                /\ DOMAIN result["stacks"][1] = {"id", "name", "depends_on"}
                /\ result["stacks"][1]["id"] = "default"
                /\ "deployment_name" \in DOMAIN before =>
                      result["stacks"][1]["name"] = before["deployment_name"]
                /\ result["stacks"][1]["depends_on"] = <<>>
           ELSE result["stacks"] = before["stacks"]

DefaultStackCase ==
    /\ op = "set_default_stack_if_no_stacks"
    /\ "stacks" \in DOMAIN before
    /\ before["stacks"] = <<>>
    /\ "deployment_name" \in DOMAIN before
    /\ before["deployment_name"] = "test"
    /\ result["stacks"] = <<[id |-> "default", name |-> "test",
                             depends_on |-> <<>>]>>

\* C5: set_env_account_region_from_env_vars returns an environment whose
\* account, region and name are the input's values where the input has
\* them, and otherwise CDK_DEFAULT_ACCOUNT, CDK_DEFAULT_REGION and "".
EnvironmentDefaulted ==
    op = "set_env_account_region_from_env_vars" =>
        LET given == GetOr(before, "environment", EmptyDict)
            env == result["environment"]
        IN  /\ raised = ""
            /\ DOMAIN env = {"account", "region", "name"}
            /\ env["account"] = IF "account" \in DOMAIN given
                                THEN given["account"]
                                ELSE Get(environ, "CDK_DEFAULT_ACCOUNT")
            /\ env["region"] = IF "region" \in DOMAIN given
                               THEN given["region"]
                               ELSE Get(environ, "CDK_DEFAULT_REGION")
            /\ env["name"] = IF "name" \in DOMAIN given
                             THEN given["name"]
                             ELSE ""

EnvironmentDefaultedCase ==
    /\ op = "set_env_account_region_from_env_vars"
    /\ "environment" \in DOMAIN before
    /\ DOMAIN before["environment"] = {"name", "account"}
    /\ DOMAIN environ = {"CDK_DEFAULT_ACCOUNT", "CDK_DEFAULT_REGION"}
    /\ result["environment"]["account"] = "234567890123"
    /\ result["environment"]["region"] = "eu-north-0"

\* the candidate files of a record, in the order they are read
Candidates(o) ==
    LET deployment_name == GetOr(o, "deployment_name", "")
        env_name == GetOr(GetOr(o, "environment", EmptyDict), "name", "")
    IN  SelectSeq(<<[path |-> env_name \o ".toml",
                     use |-> env_name # ""],
                    [path |-> deployment_name \o ".toml",
                     use |-> deployment_name # ""],
                    [path |-> deployment_name \o "-" \o env_name \o ".toml",
                     use |-> deployment_name # "" /\ env_name # ""]>>,
                  LAMBDA c : c.use)

\* C6: load_toml_config_files returns as context the input's context
\* overlaid key by key with the candidate files that exist, in the order
\* env_name.toml, deployment_name.toml, deployment_name-env_name.toml: for
\* every key the last file that has it wins, and a key no file has keeps
\* the input's value; a missing candidate raises nothing.
TomlOverlay ==
    op = "load_toml_config_files" =>
        LET cands == Candidates(before)
            found == {i \in 1..Len(cands) : cands[i].path \in DOMAIN files}
            given == GetOr(before, "context", EmptyDict)
            having(k) == {i \in found : k \in DOMAIN files[cands[i].path].data}
            last(I) == CHOOSE i \in I : \A j \in I : j <= i
            context == result["context"]
        IN  /\ raised # "" => \E i \in found : ~files[cands[i].path].valid
            /\ raised = "" =>
                  /\ DOMAIN context =
                        DOMAIN given \cup
                        UNION {DOMAIN files[cands[i].path].data : i \in found}
                  /\ \A k \in DOMAIN context :
                        context[k] =
                           IF having(k) = {}
                           THEN given[k]
                           ELSE files[cands[last(having(k))].path].data[k]

TomlOverlayCase ==
    /\ op = "load_toml_config_files"
    /\ raised = ""
    /\ DOMAIN files = {"testenv.toml", "test-testenv.toml"}
    /\ "context" \in DOMAIN before
    /\ before["context"] = ("k1" :> "ctx") @@ ("k3" :> "ctx")
    /\ result["context"] = ("k1" :> "depenv") @@ ("k2" :> "env")
                           @@ ("k3" :> "ctx")

----------------------------------------------------------------------------
(* Calls of init_ias_model *)

Processors == OptionProcessors \cup {"hardcode_env"}

ModelStackInfoOptions ==
    {[id |-> "default"], [id |-> "test2"], [id |-> "test3"],
     [id |-> "test2", name |-> "test1name"]}

ModelOptions ==
    {d @@ s @@ e :
        d \in Optional("deployment_name", {"test"}),
        s \in Optional("stacks", SeqsUpTo(ModelStackInfoOptions, MaxStacks)),
        e \in Optional("environment",
                       {EmptyDict, [name |-> "testenv"],
                        [name |-> "testenv", account |-> "234567890123",
                         region |-> "eu-north-1"]})}

ModelConfigOptions ==
    {d @@ s @@ e @@ c @@ t :
        d \in Optional("deployment_name", {"test"}),
        s \in Optional("stacks", {<<[id |-> "test2"]>>}),
        e \in Optional("environment", {[name |-> "testenv"]}),
        c \in Optional("context", {"k1" :> "ctx"}),
        t \in Optional("tags", {"Environment" :> "dev"})}

InitModel ==
    /\ \/ /\ options \in ModelOptions
          /\ environ \in {EmptyDict,
                          [CDK_DEFAULT_ACCOUNT |-> "123456789012",
                           CDK_DEFAULT_REGION |-> "eu-north-0"]}
          /\ files = EmptyDict
       \/ /\ options \in ModelConfigOptions
          /\ environ = EmptyDict
          /\ files \in Optional("test.toml", TomlFiles("dep"))
    /\ args = <<>>
    /\ procs = <<>>
    /\ NotCalled

\* init_ias_model(options, option_processors) has come back with out
ModelReturns(option_processors, out) ==
    /\ options' = out.arg
    /\ processed' = out.processed
    /\ applied' = out.applied
    /\ model' = out.model
    /\ raised' = out.err
    /\ before' = options
    /\ procs' = option_processors
    /\ op' = "init_ias_model"
    /\ UNCHANGED <<environ, files, args, result, name, key, value>>

\* init_ias_model(options, option_processors)
call_init_ias_model ==
    /\ op = ""
    /\ \E option_processors \in SeqsUpTo(Processors, MaxProcs) :
          ModelReturns(option_processors,
                       init_ias_model(options, option_processors))

\* init_ias_model(options): option_processors is [simple_defaults]
call_init_ias_model_default ==
    /\ op = ""
    /\ ModelReturns(<<"simple_defaults">>,
                    init_ias_model(options, <<"simple_defaults">>))

NextModel ==
    \/ call_init_ias_model
    \/ call_init_ias_model_default

SpecModel == InitModel /\ [][NextModel]_vars

----------------------------------------------------------------------------
(* Properties of init_ias_model *)

\* C7 as stated: init_ias_model given a record without a deployment name
\* fails with the missing-key error before any processor has been applied.
MissingNameRaisedFirst ==
    (op = "init_ias_model" /\ "deployment_name" \notin DOMAIN before) =>
        /\ raised = "KeyError: 'deployment_name'"
        /\ applied = <<>>

\* C7 as amended: init_ias_model given a record without a deployment name,
\* and processors that add none, builds no model; the missing-key error for
\* deployment_name is raised after every processor of the list has been
\* applied, and the only other error is that of the processor which raised.
MissingNameRaisedLast ==
    (op = "init_ias_model" /\ "deployment_name" \notin DOMAIN before) =>
        /\ model = EmptyDict
        /\ raised # ""
        /\ raised = "KeyError: 'deployment_name'" => applied = procs
        /\ raised # "KeyError: 'deployment_name'" =>
              /\ applied # <<>>
              /\ applied = SubSeq(procs, 1, Len(applied))
              /\ Call(applied[Len(applied)],
                      IF Len(applied) = 1
                      THEN before
                      ELSE run_processors(SubSeq(applied, 1, Len(applied) - 1),
                                          1, before, <<>>).options).err
                 = raised

MissingNameCase ==
    /\ op = "init_ias_model"
    /\ "deployment_name" \notin DOMAIN before
    /\ procs = <<"simple_defaults", "load_toml_config_files">>
    /\ applied = procs
    /\ raised = "KeyError: 'deployment_name'"

\* the list applied from its last processor inwards: B(A(o)) for <<A, B>>
RECURSIVE Composed(_, _)
Composed(ps, o) ==
    IF ps = <<>>
    THEN Returned(o, o)
    ELSE LET inner == Composed(SubSeq(ps, 1, Len(ps) - 1), o)
         IN  Then(inner, Call(ps[Len(ps)], inner.ret))

\* C8: init_ias_model applies the processors in list order, each to the
\* output of the one before: the model is built from B(A(options)) and not
\* from A(B(options)), and exactly the processors of the list are applied.
ProcessorsInListOrder ==
    op = "init_ias_model" =>
        LET inorder == Composed(procs, before)
            swapped == Composed(<<procs[2], procs[1]>>, before)
        IN  /\ inorder.err # "" => raised = inorder.err /\ model = EmptyDict
            /\ inorder.err = "" =>
                  /\ applied = procs
                  /\ processed = inorder.ret
                  /\ (Len(procs) = 2 /\ swapped.err = ""
                        /\ swapped.ret # inorder.ret)
                        => processed # swapped.ret
                  /\ raised = "" =>
                        /\ model["deployment_name"]
                             = inorder.ret["deployment_name"]
                        /\ model["current_environment"][1]
                             = GetOr(inorder.ret, "environment",
                                     [name |-> ""])["name"]
                        /\ Len(model["app"]["children"])
                             = Len(GetOr(inorder.ret, "stacks", <<>>))

ProcessorsInListOrderCase ==
    /\ op = "init_ias_model"
    /\ raised = ""
    /\ procs = <<"hardcode_env", "set_stack_names">>
    /\ "stacks" \in DOMAIN before
    /\ before["stacks"] = <<[id |-> "test2"]>>
    /\ "environment" \in DOMAIN before
    /\ before["environment"] = [name |-> "testenv"]
    /\ model["stacks"]["test2"]["stack_name"] = "test-test2-hardcoded_env"
    /\ model["current_environment"][1] = "hardcoded_env"

Ids(stack_infos) == {stack_infos[i]["id"] : i \in 1..Len(stack_infos)}

\* C9 as stated: whatever the processor list, the model's stack mapping has
\* exactly one entry per stack descriptor supplied, keyed by its id, or
\* exactly one entry keyed "default" when none was supplied.
OneEntryPerDescriptor ==
    (op = "init_ias_model" /\ raised = "") =>
        LET supplied == GetOr(before, "stacks", <<>>)
        IN  IF Len(supplied) = 0
            THEN DOMAIN model["stacks"] = {"default"}
            ELSE /\ DOMAIN model["stacks"] = Ids(supplied)
                 /\ Cardinality(DOMAIN model["stacks"]) = Len(supplied)

Injecting ==
    {"set_default_stack_if_no_stacks", "simple_defaults",
     "simple_config_defaults"}

\* C9 as amended: when descriptors are supplied the stack mapping has the
\* ids supplied as its keys, one entry per descriptor if the ids are
\* distinct; when none is supplied it has exactly one entry keyed "default"
\* if the processor list applies default-stack injection, and no entry
\* otherwise.
OneEntryPerSuppliedId ==
    (op = "init_ias_model" /\ raised = "") =>
        LET supplied == GetOr(before, "stacks", <<>>)
        IN  IF Len(supplied) = 0
            THEN DOMAIN model["stacks"] =
                    IF \E i \in 1..Len(procs) : procs[i] \in Injecting
                    THEN {"default"}
                    ELSE {}
            ELSE /\ DOMAIN model["stacks"] = Ids(supplied)
                 /\ Cardinality(Ids(supplied)) = Len(supplied) =>
                       Cardinality(DOMAIN model["stacks"]) = Len(supplied)
                 /\ \A id \in DOMAIN model["stacks"] :
                       model["stacks"][id]["id"] = id

OneEntryPerSuppliedIdCase ==
    /\ op = "init_ias_model"
    /\ raised = ""
    /\ procs = <<"set_stack_names">>
    /\ "stacks" \in DOMAIN before
    /\ before["stacks"] = <<[id |-> "test2", name |-> "test1name"],
                            [id |-> "test3"]>>
    /\ DOMAIN model["stacks"] = {"test2", "test3"}

DefaultLists ==
    {<<"simple_defaults">>,
     <<"set_env_account_region_from_env_vars",
       "set_default_stack_if_no_stacks", "set_stack_names">>}

\* C10: under the default processor list every stack is created with its
\* descriptor's explicit name if it has one, and otherwise with
\* _make_stack_name(deployment name, stack id, environment name); the
\* synthesized default stack is created with the deployment name as its
\* name, whatever the environment name.
DefaultStackNames ==
    (op = "init_ias_model" /\ procs \in DefaultLists /\ raised = "") =>
        LET supplied == GetOr(before, "stacks", <<>>)
            deployment_name == before["deployment_name"]
            env_name == GetOr(GetOr(before, "environment", EmptyDict),
                              "name", "")
            made == model["app"]["children"]
        IN  IF Len(supplied) = 0
            THEN /\ Len(made) = 1
                 /\ made[1]["id"] = "default"
                 /\ made[1]["stack_name"] = deployment_name
                 /\ model["stacks"] = [id \in {"default"} |-> made[1]]
            ELSE /\ Len(made) = Len(supplied)
                 /\ \A i \in 1..Len(supplied) :
                       /\ made[i]["id"] = supplied[i]["id"]
                       /\ made[i]["stack_name"] =
                             IF "name" \in DOMAIN supplied[i]
                             THEN supplied[i]["name"]
                             ELSE _make_stack_name(deployment_name,
                                                   supplied[i]["id"], env_name)
                 /\ \A id \in DOMAIN model["stacks"] :
                       \E i \in 1..Len(made) : model["stacks"][id] = made[i]

DefaultStackNamesCase ==
    /\ op = "init_ias_model"
    /\ raised = ""
    /\ procs = <<"simple_defaults">>
    /\ before = [deployment_name |-> "test",
                 stacks |-> <<[id |-> "test2"], [id |-> "test3"]>>]
    /\ model["stacks"]["test2"]["stack_name"] = "test-test2"
    /\ model["stacks"]["test3"]["stack_name"] = "test-test3"

----------------------------------------------------------------------------
(* Calls of get_context_data on a stack of the model *)

ContextKeys ==
    {"config1", "config2", "config3", "subconfig1", "subconfig2", "leaf"}

\* the context of test_get_context_data, with parts left out and one more
\* level; the processors never look into a context value
NestedContexts ==
    {a @@ b :
        a \in Optional("config1", {PyStr("value1")}),
        b \in Optional("config2",
               {PyDict(EmptyDict),
                PyDict("subconfig1" :> PyStr("subvalue1")),
                PyDict(("subconfig1" :> PyStr("subvalue1"))
                       @@ ("subconfig2" :> PyDict("leaf" :> PyStr("x"))))})}

ContextOptions ==
    {d @@ s @@ c :
        d \in {"deployment_name" :> "test"},
        s \in Optional("stacks", {<<[id |-> "test2"]>>}),
        c \in Optional("context", NestedContexts)}

Keys ==
    {PyStr(k) : k \in ContextKeys}
    \cup {PyList(l) : l \in SeqsUpTo(ContextKeys, MaxPath)}

InitContext ==
    /\ options \in ContextOptions
    /\ environ = EmptyDict
    /\ files = EmptyDict
    /\ args = <<>>
    /\ procs = <<>>
    /\ NotCalled

\* get_context_data(scope, k) has come back with out
ContextReturns(k, out) ==
    /\ key' = k
    /\ value' = out.value
    /\ raised' = out.err
    /\ op' = "get_context_data"
    /\ UNCHANGED <<options, before, environ, files, result, args, procs,
                   processed, applied, model, name>>

\* get_context_data(stack, k) for a stack of the model; an app created with
\* context=None has no context of its own
call_get_context_data ==
    /\ op = "init_ias_model"
    /\ raised = ""
    /\ \E k \in Keys :
          ContextReturns(k, get_context_data(
                                IF "context" \in DOMAIN processed
                                THEN model["app"]["context"]
                                ELSE EmptyDict,
                                k))

NextContext ==
    \/ call_init_ias_model_default
    \/ call_get_context_data

SpecContext == InitContext /\ [][NextContext]_vars

\* the value at the end of path below v, None where the path leaves v
RECURSIVE Follow(_, _)
Follow(v, path) ==
    IF path = <<>>
    THEN v
    ELSE IF v.kind = "dict" /\ path[1] \in DOMAIN v.items
    THEN Follow(v.items[path[1]], Tail(path))
    ELSE PyNone

\* C11: get_context_data, given a single key or a sequence of at least one
\* key, returns None without raising when a key of the path is absent at
\* its level, and otherwise the value found by following the keys in
\* order; the context is left as it was.
ContextLookup ==
    LET context == GetOr(processed, "context", EmptyDict)
        path == IF key.kind = "str" THEN <<key.str>> ELSE key.items
    IN  (op = "get_context_data" /\ path # <<>>) =>
            /\ raised = ""
            /\ value = Follow(PyDict(context), path)
            /\ "context" \in DOMAIN processed =>
                  model["app"]["context"] = context

----------------------------------------------------------------------------
(* Stack descriptors that share an id *)

HasDuplicateIds(stack_infos) ==
    \E i, j \in 1..Len(stack_infos) :
        i < j /\ stack_infos[i]["id"] = stack_infos[j]["id"]

----------------------------------------------------------------------------
(* The default processors applied twice *)

DefaultProcessors ==
    {"set_env_account_region_from_env_vars", "set_default_stack_if_no_stacks",
     "set_stack_names", "simple_defaults"}

\* C13: simple_defaults, and each of the three processors it is made of,
\* applied to its own result returns that result, the process variables
\* being the same for both calls.
DefaultsIdempotent ==
    (op \in DefaultProcessors /\ raised = "") =>
        /\ Call(op, result).err = ""
        /\ Call(op, result).ret = result

DefaultsIdempotentCase ==
    /\ op = "simple_defaults"
    /\ raised = ""
    /\ DOMAIN before = {"deployment_name"}
    /\ before["deployment_name"] = "test"
    /\ DOMAIN environ = {"CDK_DEFAULT_REGION"}
    /\ result = [deployment_name |-> "test",
                 environment |-> [name |-> "", account |-> None,
                                  region |-> "eu-north-0"],
                 stacks |-> <<[id |-> "default", name |-> "test",
                               depends_on |-> <<>>]>>]
    /\ Call("simple_defaults", result).ret = result

====
